---- MODULE Spec2Model ----
(***************************************************************************)
(* A model of the CRM table controllers: Meetings (pages/Meetings.tsx),    *)
(* ContactTable and LeadTable (components/ContactTable.tsx), AccountTable  *)
(* (components/AccountTable.tsx), the Deals ListView                       *)
(* (components/ListView.tsx) and the filter of TaskListView                *)
(* (components/tasks/TaskListView.tsx).                                    *)
(*                                                                         *)
(* Five specifications share the module:                                   *)
(*   SpecOps    the delete and conversion handlers and the backend calls   *)
(*              they issue, one step per awaited call, with writes of      *)
(*              other sessions interleaved between the steps;              *)
(*   SpecView   the list-view state of one controller: collection,         *)
(*              filters, sort, page, selection and the effects that        *)
(*              re-derive the filtered list;                               *)
(*   SpecFetch  the fetches of a collection: requests in flight, the       *)
(*              backend's answers and the handling of each response;       *)
(*   SpecFilter the search, the two dropdown filters and the pager of a    *)
(*              list view or task list;                                    *)
(*   SpecUrl    the query parameters that seed and re-seed the filters,    *)
(*              the clear-filters handlers and the Deals filters kept in   *)
(*              local storage.                                             *)
(***************************************************************************)
EXTENDS Integers, Sequences, FiniteSets, TLC

\* ------------------------------------------------------------------------
\* Bounds
\* ------------------------------------------------------------------------
\* number of row identifiers of a backend table
MaxIds == 3
\* number of writes other sessions perform while a handler runs
MaxOtherWrites == 1

\* number of fetches a list view issues, and how many of them may be in
\* flight at once
MaxFetches == 3
MaxInFlight == 2

\* number of rows the backend may return to a list view
MaxRows == 3
\* page sizes, scaled down so that MaxRows rows fill several pages:
\* ITEMS_PER_PAGE (Meetings) and the initial itemsPerPage stand for 25,
\* SelectAllCap for the 50 of slice(0, 50)
ITEMS_PER_PAGE == 2
DefaultItemsPerPage == 2
SelectAllCap == 2
\* PAGE_SIZE_OPTIONS: sizes below, at and above the cap of select-all
PAGE_SIZE_OPTIONS == {1, SelectAllCap, SelectAllCap + 1}

Ids == 1..MaxIds
RowIds == 1..MaxRows
\* accountToDelete / leadToDelete === null
NoId == 0

Controllers == {"meetings", "contacts", "leads", "accounts", "deals"}

VARIABLES
  \* ---- SpecOps ----
  ctl,               \* the controller the operation belongs to
  op,                \* the handler that is running ("none" before it starts)
  pc,                \* position of the handler: "idle", an await, "done"
  sel,               \* selectedMeetings / selectedContacts / selectedLeads /
                     \* selectedAccounts / selectedDeals
  target,            \* accountToDelete.id / leadToDelete.id, NoId when null
  dlr,               \* the deleteLinkedRecords argument
  tblMain,           \* ids of the rows of the controller's own table
  contactsAccountId, \* account ids occurring as contacts.account_id
  leadsAccountId,    \* account ids occurring as leads.account_id
  notifLeadId,       \* lead ids occurring as notifications.lead_id
  itemsLeadId,       \* lead ids occurring as lead_action_items.lead_id
  notifItemOf,       \* lead ids whose action items occur as
                     \* notifications.action_item_id
  linkedContacts,    \* local: data of the contacts link query
  linkedLeads,       \* local: data of the leads link query
  deletable,         \* local: deletableAccounts
  actionItems,       \* local: data of the lead_action_items query
  calls,             \* the backend calls issued so far, in order
  toasts,            \* the notifications shown so far, in order
  fetches,           \* number of re-fetches the handler has issued
  isBulkDeleting,    \* the isBulkDeleting flag
  dialogOpen,        \* showDeleteDialog
  otherWrites,       \* writes of other sessions so far
  sel0,              \* history: the selection when the handler was invoked
  tbl0,              \* history: the tables when the handler was invoked
  \* ---- SpecView ----
  collection,        \* meetings / contacts / leads / accounts (state) or
                     \* deals (prop): the ids of the in-memory rows, in order
  filtered,          \* filteredMeetings / filteredContacts / filteredLeads /
                     \* filteredAccounts
  searchTerm,        \* searchTerm
  debouncedSearchTerm, \* debouncedSearchTerm (Contacts, Leads)
  timerArmed,        \* the debounce timer is running
  statusFilter,      \* statusFilter / sourceFilter / filters.stages
  sortField,         \* sortColumn / sortField / sortBy
  sortDirection,     \* sortDirection / sortOrder
  currentPage,       \* currentPage
  itemsPerPage,      \* itemsPerPage
  selected,          \* the selection of the list view
  pending,           \* an effect is scheduled and has not run yet
  lastEvent,         \* history: the kind of the last event handled
  ownerFilter,       \* ownerFilter / organizerFilter / leadOwnerFilter /
                     \* assignedToFilter
  \* ---- SpecFetch ----
  loading,           \* the loading flag
  inflight,          \* the fetches that have not returned, in issue order
  leadsConverted,    \* backend: ids of the leads with lead_status Converted
  memConverted,      \* in memory: ids of the rows with lead_status Converted
  memCounts,         \* in memory: ids of the accounts with contact_count > 0
  arrived,           \* history: the last two responses handled, in order
  \* ---- SpecUrl ----
  urlStatus,         \* the status / source / stage the URL supplies: the
                     \* query parameter or the initialStatus /
                     \* initialStageFilter prop, "none" when absent
  urlOwner,          \* the owner query parameter: "me" or "none"
  urlViewId,         \* the URL has a viewId parameter
  mounted,           \* the mount effects have run
  storage,           \* localStorage item 'deals-filters'
  filtersSearchTerm  \* filters.searchTerm of the Deals list

opsVars == <<ctl, op, pc, sel, target, dlr, tblMain, contactsAccountId,
             leadsAccountId, notifLeadId, itemsLeadId, notifItemOf,
             linkedContacts, linkedLeads, deletable, actionItems, calls,
             toasts, fetches, isBulkDeleting, dialogOpen, otherWrites, sel0, tbl0>>

viewVars == <<collection, filtered, searchTerm, debouncedSearchTerm,
              timerArmed, statusFilter, sortField, sortDirection,
              currentPage, itemsPerPage, selected, pending, lastEvent>>

fetchVars == <<loading, inflight, leadsConverted, memConverted, memCounts,
               arrived>>

urlVars == <<urlStatus, urlOwner, urlViewId, mounted, storage,
             filtersSearchTerm>>

vars == <<opsVars, viewVars, ownerFilter, fetchVars, urlVars>>

\* ------------------------------------------------------------------------
\* The backend client: select(table, filter) -> {data, error},
\* delete(table, ids) -> {error}
\* ------------------------------------------------------------------------
\* { data } of a query: null when the query failed
NullData == [isNull |-> TRUE, rows |-> {}]
Data(rows) == [isNull |-> FALSE, rows |-> rows]

\* `data && data.length > 0`
NonEmpty(d) == ~d.isNull /\ d.rows # {}
\* `(data || [])`
OrEmpty(d) == IF d.isNull THEN {} ELSE d.rows

\* the account ids that some contact or lead row refers to
Linked == contactsAccountId \cup leadsAccountId

\* a call as recorded in the log; for a delete on accounts `linked` is the
\* set of accounts a contact or lead row referred to when it was issued
Call(table, verb, col, ids, ok) ==
  [table |-> table, verb |-> verb, col |-> col, ids |-> ids, ok |-> ok,
   linked |-> IF table = "accounts" /\ verb = "delete" THEN Linked ELSE {}]

Toast(title, n, m) == [title |-> title, n |-> n, m |-> m]

Tables == [main |-> tblMain, notif |-> notifLeadId, items |-> itemsLeadId,
           notifItem |-> notifItemOf, linked |-> Linked]

IssueCall(c) == calls' = Append(calls, c)
ShowToast(t) == toasts' = Append(toasts, t)

\* what starting a handler records
Begin(name) ==
  /\ pc = "idle"
  /\ op' = name
  /\ sel0' = sel
  /\ tbl0' = Tables


dbLinks == <<contactsAccountId, leadsAccountId>>
dbDeps == <<notifLeadId, itemsLeadId, notifItemOf>>
locals == <<linkedContacts, linkedLeads, deletable, actionItems>>
uiFlags == <<isBulkDeleting, dialogOpen>>

\* ------------------------------------------------------------------------
\* Meetings.handleBulkDelete (no guard on an empty selection)
\* ------------------------------------------------------------------------
MeetingsHandleBulkDelete ==
  /\ ctl = "meetings"
  /\ Begin("meetings.handleBulkDelete")
  /\ \E ok \in BOOLEAN :
       /\ IssueCall(Call("meetings", "delete", "id", sel, ok))
       /\ IF ok
          THEN /\ tblMain' = tblMain \ sel
               /\ ShowToast(Toast("Success", Cardinality(sel), 0))
               /\ sel' = {}
               /\ fetches' = fetches + 1
          ELSE /\ ShowToast(Toast("Error", 0, 0))
               /\ UNCHANGED <<tblMain, sel, fetches>>
  /\ pc' = "done"
  /\ UNCHANGED <<ctl, target, dlr, dbLinks, dbDeps, locals, uiFlags,
                 otherWrites>>
  /\ UNCHANGED <<viewVars, ownerFilter, fetchVars, urlVars>>

\* ------------------------------------------------------------------------
\* ContactTable.handleBulkDelete
\* ------------------------------------------------------------------------
ContactHandleBulkDelete ==
  /\ ctl = "contacts"
  /\ Begin("contacts.handleBulkDelete")
  /\ \E ok \in BOOLEAN :
       IF sel = {}
       THEN \* if (selectedContacts.length === 0) return;
            UNCHANGED <<calls, toasts, tblMain, sel, fetches>>
       ELSE /\ IssueCall(Call("contacts", "delete", "id", sel, ok))
            /\ IF ok
               THEN \* logBulkDelete writes the audit table, which the
                    \* model does not carry
                    /\ tblMain' = tblMain \ sel
                    /\ ShowToast(Toast("Success", Cardinality(sel), 0))
                    /\ sel' = {}
                    /\ fetches' = fetches + 1
               ELSE /\ ShowToast(Toast("Error", 0, 0))
                    /\ UNCHANGED <<tblMain, sel, fetches>>
  \* setIsBulkDeleting(true) ... finally setIsBulkDeleting(false)
  /\ isBulkDeleting' = FALSE
  /\ pc' = "done"
  /\ UNCHANGED <<ctl, target, dlr, dbLinks, dbDeps, locals, dialogOpen,
                 otherWrites>>
  /\ UNCHANGED <<viewVars, ownerFilter, fetchVars, urlVars>>

\* ------------------------------------------------------------------------
\* ListView.handleBulkDelete (Deals): the delete is handed to the parent
\* through onDeleteDeals and its result is not awaited
\* ------------------------------------------------------------------------
\* the parent's onDeleteDeals: one batched delete by id list
OnDeleteDeals(ids, ok) ==
  /\ IssueCall(Call("deals", "delete", "id", ids, ok))
  /\ tblMain' = IF ok THEN tblMain \ ids ELSE tblMain

ListViewHandleBulkDelete ==
  /\ ctl = "deals"
  /\ Begin("deals.handleBulkDelete")
  /\ \E ok \in BOOLEAN :
       IF sel = {}
       THEN \* if (selectedDeals.size === 0) return;
            UNCHANGED <<calls, toasts, tblMain, sel>>
       ELSE /\ OnDeleteDeals(sel, ok)
            /\ sel' = {}
            /\ ShowToast(Toast("Deals deleted", Cardinality(sel), 0))
  /\ pc' = "done"
  /\ UNCHANGED <<ctl, target, dlr, dbLinks, dbDeps, locals, uiFlags,
                 fetches, otherWrites>>
  /\ UNCHANGED <<viewVars, ownerFilter, fetchVars, urlVars>>

\* onConfirm of the Deals list's DeleteConfirmDialog: the delete of
\* dealToDelete is handed to the parent through onDeleteDeals, the toast
\* is shown without awaiting its result, setDealToDelete(null)
ListViewDeleteConfirm ==
  /\ ctl = "deals"
  /\ Begin("deals.deleteConfirm")
  /\ \E ok \in BOOLEAN :
       IF target = NoId
       THEN \* if (dealToDelete)
            UNCHANGED <<calls, toasts, tblMain, target>>
       ELSE /\ OnDeleteDeals({target}, ok)
            /\ ShowToast(Toast("Deal deleted", 1, 0))
            /\ target' = NoId
  /\ pc' = "done"
  /\ UNCHANGED <<ctl, sel, dlr, dbLinks, dbDeps, locals, uiFlags,
                 fetches, otherWrites>>
  /\ UNCHANGED <<viewVars, ownerFilter, fetchVars, urlVars>>

\* ------------------------------------------------------------------------
\* AccountTable.handleDelete
\* ------------------------------------------------------------------------
\* up to the first await: the contacts link query
AccountHandleDelete_Contacts ==
  /\ ctl = "accounts"
  /\ Begin("accounts.handleDelete")
  /\ \E ok \in BOOLEAN :
       IF target = NoId
       THEN \* if (!accountToDelete?.id) return;
            /\ pc' = "done"
            /\ UNCHANGED <<calls, linkedContacts>>
       ELSE /\ IssueCall(Call("contacts", "select", "account_id", {target},
                              ok))
            /\ linkedContacts' =
                 IF ok THEN Data({target} \cap contactsAccountId)
                       ELSE NullData
            /\ pc' = "ad_leads"
  /\ UNCHANGED <<ctl, sel, target, dlr, tblMain, dbLinks, dbDeps,
                 linkedLeads, deletable, actionItems, toasts, fetches,
                 uiFlags, otherWrites>>
  /\ UNCHANGED <<viewVars, ownerFilter, fetchVars, urlVars>>

\* the leads link query and the guard on its result
AccountHandleDelete_Leads ==
  /\ pc = "ad_leads"
  /\ op = "accounts.handleDelete"
  /\ \E ok \in BOOLEAN :
       /\ IssueCall(Call("leads", "select", "account_id", {target}, ok))
       /\ linkedLeads' =
            IF ok THEN Data({target} \cap leadsAccountId) ELSE NullData
  /\ IF NonEmpty(linkedContacts) \/ NonEmpty(linkedLeads')
     THEN /\ ShowToast(Toast("Cannot Delete", 0, 0))
          /\ dialogOpen' = FALSE
          /\ pc' = "done"
     ELSE /\ pc' = "ad_delete"
          /\ UNCHANGED <<toasts, dialogOpen>>
  /\ UNCHANGED <<ctl, op, sel, target, dlr, tblMain, dbLinks, dbDeps,
                 linkedContacts, deletable, actionItems, fetches,
                 isBulkDeleting, otherWrites, sel0, tbl0>>
  /\ UNCHANGED <<viewVars, ownerFilter, fetchVars, urlVars>>

\* the delete on accounts and everything after it
AccountHandleDelete_Delete ==
  /\ pc = "ad_delete"
  /\ op = "accounts.handleDelete"
  /\ \E ok \in BOOLEAN :
       /\ IssueCall(Call("accounts", "delete", "id", {target}, ok))
       /\ IF ok
          THEN \* logDelete writes the audit table, which the model does
               \* not carry
               /\ tblMain' = tblMain \ {target}
               /\ ShowToast(Toast("Success", 1, 0))
               /\ fetches' = fetches + 1
               /\ target' = NoId
               /\ dialogOpen' = FALSE
          ELSE /\ ShowToast(Toast("Error", 0, 0))
               /\ UNCHANGED <<tblMain, fetches, target, dialogOpen>>
  /\ pc' = "done"
  /\ UNCHANGED <<ctl, op, sel, dlr, dbLinks, dbDeps, locals,
                 isBulkDeleting, otherWrites, sel0, tbl0>>
  /\ UNCHANGED <<viewVars, ownerFilter, fetchVars, urlVars>>

\* ------------------------------------------------------------------------
\* AccountTable.handleBulkDelete
\* ------------------------------------------------------------------------
AccountHandleBulkDelete_Contacts ==
  /\ ctl = "accounts"
  /\ Begin("accounts.handleBulkDelete")
  /\ \E ok \in BOOLEAN :
       IF sel = {}
       THEN \* if (selectedAccounts.length === 0) return;
            /\ pc' = "done"
            /\ UNCHANGED <<calls, linkedContacts, isBulkDeleting>>
       ELSE /\ isBulkDeleting' = TRUE
            /\ IssueCall(Call("contacts", "select", "account_id", sel, ok))
            /\ linkedContacts' =
                 IF ok THEN Data(sel \cap contactsAccountId) ELSE NullData
            /\ pc' = "ab_leads"
  /\ UNCHANGED <<ctl, sel, target, dlr, tblMain, dbLinks, dbDeps,
                 linkedLeads, deletable, actionItems, toasts, fetches,
                 dialogOpen, otherWrites>>
  /\ UNCHANGED <<viewVars, ownerFilter, fetchVars, urlVars>>

\* accountsWithLinks and deletableAccounts
AccountsWithLinks(lc, ll) == OrEmpty(lc) \cup OrEmpty(ll)
DeletableAccounts(s, lc, ll) == {id \in s : id \notin AccountsWithLinks(lc, ll)}

AccountHandleBulkDelete_Leads ==
  /\ pc = "ab_leads"
  /\ op = "accounts.handleBulkDelete"
  /\ \E ok \in BOOLEAN :
       /\ IssueCall(Call("leads", "select", "account_id", sel0, ok))
       /\ linkedLeads' =
            IF ok THEN Data(sel0 \cap leadsAccountId) ELSE NullData
  /\ deletable' = DeletableAccounts(sel0, linkedContacts, linkedLeads')
  /\ IF deletable' = {}
     THEN /\ ShowToast(Toast("Cannot Delete", 0, 0))
          /\ isBulkDeleting' = FALSE
          /\ pc' = "done"
     ELSE /\ pc' = "ab_delete"
          /\ UNCHANGED <<toasts, isBulkDeleting>>
  /\ UNCHANGED <<ctl, op, sel, target, dlr, tblMain, dbLinks, dbDeps,
                 linkedContacts, actionItems, fetches, dialogOpen,
                 otherWrites, sel0, tbl0>>
  /\ UNCHANGED <<viewVars, ownerFilter, fetchVars, urlVars>>

AccountHandleBulkDelete_Delete ==
  /\ pc = "ab_delete"
  /\ op = "accounts.handleBulkDelete"
  /\ \E ok \in BOOLEAN :
       /\ IssueCall(Call("accounts", "delete", "id", deletable, ok))
       /\ IF ok
          THEN \* the logDelete loop writes the audit table, which the
               \* model does not carry
               /\ tblMain' = tblMain \ deletable
               /\ ShowToast(Toast("Success", Cardinality(deletable),
                                  Cardinality(sel0) - Cardinality(deletable)))
               /\ sel' = {}
               /\ fetches' = fetches + 1
          ELSE /\ ShowToast(Toast("Error", 0, 0))
               /\ UNCHANGED <<tblMain, sel, fetches>>
  /\ isBulkDeleting' = FALSE
  /\ pc' = "done"
  /\ UNCHANGED <<ctl, op, target, dlr, dbLinks, dbDeps, locals, dialogOpen,
                 otherWrites, sel0, tbl0>>
  /\ UNCHANGED <<viewVars, ownerFilter, fetchVars, urlVars>>

\* ------------------------------------------------------------------------
\* Writes of other sessions: a contact or a lead is linked to an account, or
\* unlinked from it, while a handler of this session is between two awaits
\* ------------------------------------------------------------------------
OtherSessionWrite ==
  /\ ctl = "accounts"
  /\ pc \notin {"idle", "done"}
  /\ otherWrites < MaxOtherWrites
  /\ otherWrites' = otherWrites + 1
  /\ \E a \in Ids :
       \/ /\ contactsAccountId' = contactsAccountId \cup {a}
          /\ UNCHANGED leadsAccountId
       \/ /\ leadsAccountId' = leadsAccountId \cup {a}
          /\ UNCHANGED contactsAccountId
       \/ /\ contactsAccountId' = contactsAccountId \ {a}
          /\ UNCHANGED leadsAccountId
       \/ /\ leadsAccountId' = leadsAccountId \ {a}
          /\ UNCHANGED contactsAccountId
  /\ UNCHANGED <<ctl, op, pc, sel, target, dlr, tblMain, dbDeps, locals,
                 calls, toasts, fetches, uiFlags, sel0, tbl0>>
  /\ UNCHANGED <<viewVars, ownerFilter, fetchVars, urlVars>>


\* ------------------------------------------------------------------------
\* LeadTable.handleDelete(deleteLinkedRecords)
\* ------------------------------------------------------------------------
\* the delete on leads and everything after it
LeadDeleteLead(ok) ==
  /\ IssueCall(Call("leads", "delete", "id", {target}, ok))
  /\ IF ok
     THEN \* logDelete writes the audit table, which the model does not
          \* carry
          /\ tblMain' = tblMain \ {target}
          /\ ShowToast(Toast("Success", 1, 0))
          /\ fetches' = fetches + 1
          /\ target' = NoId
          /\ dialogOpen' = FALSE
     ELSE /\ ShowToast(Toast("Error", 0, 0))
          /\ UNCHANGED <<tblMain, fetches, target, dialogOpen>>
  /\ pc' = "done"

\* up to the first await: the notifications delete when linked records are
\* to be deleted, the leads delete otherwise
LeadHandleDelete_Start ==
  /\ ctl = "leads"
  /\ Begin("leads.handleDelete")
  /\ \E d \in BOOLEAN, ok \in BOOLEAN :
       /\ dlr' = d
       /\ IF target = NoId
          THEN \* toast "No lead selected for deletion"; return
               /\ ShowToast(Toast("Error", 0, 0))
               /\ pc' = "done"
               /\ UNCHANGED <<calls, tblMain, notifLeadId, fetches, target,
                              dialogOpen>>
          ELSE IF d
          THEN \* the result of the notifications delete is not looked at
               /\ IssueCall(Call("notifications", "delete", "lead_id",
                                 {target}, ok))
               /\ notifLeadId' =
                    IF ok THEN notifLeadId \ {target} ELSE notifLeadId
               /\ pc' = "ld_items_select"
               /\ UNCHANGED <<toasts, tblMain, fetches, target, dialogOpen>>
          ELSE /\ LeadDeleteLead(ok)
               /\ UNCHANGED notifLeadId
  /\ UNCHANGED <<ctl, sel, dbLinks, itemsLeadId, notifItemOf, locals,
                 isBulkDeleting, otherWrites>>
  /\ UNCHANGED <<viewVars, ownerFilter, fetchVars, urlVars>>

\* the lead_action_items query
LeadHandleDelete_SelectItems ==
  /\ pc = "ld_items_select"
  /\ op = "leads.handleDelete"
  /\ \E ok \in BOOLEAN :
       /\ IssueCall(Call("lead_action_items", "select", "lead_id", {target},
                         ok))
       /\ actionItems' =
            IF ok THEN Data({target} \cap itemsLeadId) ELSE NullData
  /\ pc' = IF NonEmpty(actionItems') THEN "ld_notif_items"
                                     ELSE "ld_items_delete"
  /\ UNCHANGED <<ctl, op, sel, target, dlr, tblMain, dbLinks, dbDeps,
                 linkedContacts, linkedLeads, deletable, toasts, fetches,
                 uiFlags, otherWrites, sel0, tbl0>>
  /\ UNCHANGED <<viewVars, ownerFilter, fetchVars, urlVars>>

\* the notifications delete by action_item_id
LeadHandleDelete_NotifItems ==
  /\ pc = "ld_notif_items"
  /\ op = "leads.handleDelete"
  /\ \E ok \in BOOLEAN :
       /\ IssueCall(Call("notifications", "delete", "action_item_id",
                         actionItems.rows, ok))
       /\ notifItemOf' =
            IF ok THEN notifItemOf \ actionItems.rows ELSE notifItemOf
  /\ pc' = "ld_items_delete"
  /\ UNCHANGED <<ctl, op, sel, target, dlr, tblMain, dbLinks, notifLeadId,
                 itemsLeadId, locals, toasts, fetches, uiFlags, otherWrites,
                 sel0, tbl0>>
  /\ UNCHANGED <<viewVars, ownerFilter, fetchVars, urlVars>>

\* the lead_action_items delete; its error is thrown
LeadHandleDelete_DeleteItems ==
  /\ pc = "ld_items_delete"
  /\ op = "leads.handleDelete"
  /\ \E ok \in BOOLEAN :
       /\ IssueCall(Call("lead_action_items", "delete", "lead_id", {target},
                         ok))
       /\ IF ok
          THEN /\ itemsLeadId' = itemsLeadId \ {target}
               /\ pc' = "ld_lead"
               /\ UNCHANGED toasts
          ELSE \* if (actionItemsError) throw actionItemsError;
               /\ ShowToast(Toast("Error", 0, 0))
               /\ pc' = "done"
               /\ UNCHANGED itemsLeadId
  /\ UNCHANGED <<ctl, op, sel, target, dlr, tblMain, dbLinks, notifLeadId,
                 notifItemOf, locals, fetches, uiFlags, otherWrites, sel0,
                 tbl0>>
  /\ UNCHANGED <<viewVars, ownerFilter, fetchVars, urlVars>>

LeadHandleDelete_DeleteLead ==
  /\ pc = "ld_lead"
  /\ op = "leads.handleDelete"
  /\ \E ok \in BOOLEAN : LeadDeleteLead(ok)
  /\ UNCHANGED <<ctl, op, sel, dlr, dbLinks, dbDeps, locals, isBulkDeleting,
                 otherWrites, sel0, tbl0>>
  /\ UNCHANGED <<viewVars, ownerFilter, fetchVars, urlVars>>

\* ------------------------------------------------------------------------
\* LeadTable.handleBulkDelete(deleteLinkedRecords)
\* ------------------------------------------------------------------------
\* LeadBulkDeleteLeads without setSelectedLeads([]) after the delete
LeadBulkDeleteLeads_KeepsSelection(ids, ok) ==
  /\ IssueCall(Call("leads", "delete", "id", ids, ok))
  /\ IF ok
     THEN /\ tblMain' = tblMain \ ids
          /\ ShowToast(Toast("Success", Cardinality(ids), 0))
          /\ fetches' = fetches + 1
          /\ UNCHANGED sel
     ELSE /\ ShowToast(Toast("Error", 0, 0))
          /\ UNCHANGED <<tblMain, sel, fetches>>
  /\ isBulkDeleting' = FALSE
  /\ pc' = "done"

\* the tail of LeadTable.handleBulkDelete: the delete on leads and what
\* follows it
LeadBulkDeleteLeads(ids, ok) ==
  /\ IssueCall(Call("leads", "delete", "id", ids, ok))
  /\ IF ok
     THEN \* logBulkDelete writes the audit table, which the model does
          \* not carry
          /\ tblMain' = tblMain \ ids
          /\ ShowToast(Toast("Success", Cardinality(ids), 0))
          /\ sel' = {}
          /\ fetches' = fetches + 1
     ELSE /\ ShowToast(Toast("Error", 0, 0))
          /\ UNCHANGED <<tblMain, sel, fetches>>
  \* finally setIsBulkDeleting(false)
  /\ isBulkDeleting' = FALSE
  /\ pc' = "done"

\* LeadHandleBulkDelete_Start with the deleteLinkedRecords branch left out:
\* the delete on leads is the first call whatever the flag says
LeadHandleBulkDelete_Start_NoCascade ==
  /\ ctl = "leads"
  /\ Begin("leads.handleBulkDelete")
  /\ \E d \in BOOLEAN, ok \in BOOLEAN :
       /\ dlr' = d
       /\ IF sel = {}
          THEN /\ pc' = "done"
               /\ UNCHANGED <<calls, toasts, tblMain, sel, fetches,
                              isBulkDeleting>>
          ELSE LeadBulkDeleteLeads(sel, ok)
  /\ UNCHANGED <<ctl, target, dbLinks, notifLeadId, itemsLeadId, notifItemOf,
                 locals, dialogOpen, otherWrites>>
  /\ UNCHANGED <<viewVars, ownerFilter, fetchVars, urlVars>>

LeadHandleBulkDelete_Start ==
  /\ ctl = "leads"
  /\ Begin("leads.handleBulkDelete")
  /\ \E d \in BOOLEAN, ok \in BOOLEAN :
       /\ dlr' = d
       /\ IF sel = {}
          THEN \* if (selectedLeads.length === 0) return;
               /\ pc' = "done"
               /\ UNCHANGED <<calls, toasts, tblMain, notifLeadId, sel,
                              fetches, isBulkDeleting>>
          ELSE IF d
          THEN /\ isBulkDeleting' = TRUE
               /\ IssueCall(Call("notifications", "delete", "lead_id", sel,
                                 ok))
               /\ notifLeadId' = IF ok THEN notifLeadId \ sel ELSE notifLeadId
               /\ pc' = "lb_items_select"
               /\ UNCHANGED <<toasts, tblMain, sel, fetches>>
          ELSE /\ LeadBulkDeleteLeads(sel, ok)
               /\ UNCHANGED notifLeadId
  /\ UNCHANGED <<ctl, target, dbLinks, itemsLeadId, notifItemOf, locals,
                 dialogOpen, otherWrites>>
  /\ UNCHANGED <<viewVars, ownerFilter, fetchVars, urlVars>>

LeadHandleBulkDelete_SelectItems ==
  /\ pc = "lb_items_select"
  /\ op = "leads.handleBulkDelete"
  /\ \E ok \in BOOLEAN :
       /\ IssueCall(Call("lead_action_items", "select", "lead_id", sel0, ok))
       /\ actionItems' = IF ok THEN Data(sel0 \cap itemsLeadId) ELSE NullData
  /\ pc' = IF NonEmpty(actionItems') THEN "lb_notif_items"
                                     ELSE "lb_items_delete"
  /\ UNCHANGED <<ctl, op, sel, target, dlr, tblMain, dbLinks, dbDeps,
                 linkedContacts, linkedLeads, deletable, toasts, fetches,
                 uiFlags, otherWrites, sel0, tbl0>>
  /\ UNCHANGED <<viewVars, ownerFilter, fetchVars, urlVars>>

LeadHandleBulkDelete_NotifItems ==
  /\ pc = "lb_notif_items"
  /\ op = "leads.handleBulkDelete"
  /\ \E ok \in BOOLEAN :
       /\ IssueCall(Call("notifications", "delete", "action_item_id",
                         actionItems.rows, ok))
       /\ notifItemOf' =
            IF ok THEN notifItemOf \ actionItems.rows ELSE notifItemOf
  /\ pc' = "lb_items_delete"
  /\ UNCHANGED <<ctl, op, sel, target, dlr, tblMain, dbLinks, notifLeadId,
                 itemsLeadId, locals, toasts, fetches, uiFlags, otherWrites,
                 sel0, tbl0>>
  /\ UNCHANGED <<viewVars, ownerFilter, fetchVars, urlVars>>

\* the lead_action_items delete; its result is not looked at
LeadHandleBulkDelete_DeleteItems ==
  /\ pc = "lb_items_delete"
  /\ op = "leads.handleBulkDelete"
  /\ \E ok \in BOOLEAN :
       /\ IssueCall(Call("lead_action_items", "delete", "lead_id", sel0, ok))
       /\ itemsLeadId' = IF ok THEN itemsLeadId \ sel0 ELSE itemsLeadId
  /\ pc' = "lb_lead"
  /\ UNCHANGED <<ctl, op, sel, target, dlr, tblMain, dbLinks, notifLeadId,
                 notifItemOf, locals, toasts, fetches, uiFlags, otherWrites,
                 sel0, tbl0>>
  /\ UNCHANGED <<viewVars, ownerFilter, fetchVars, urlVars>>

LeadHandleBulkDelete_DeleteLeads ==
  /\ pc = "lb_lead"
  /\ op = "leads.handleBulkDelete"
  /\ \E ok \in BOOLEAN : LeadBulkDeleteLeads(sel0, ok)
  /\ UNCHANGED <<ctl, op, target, dlr, dbLinks, dbDeps, locals, dialogOpen,
                 otherWrites, sel0, tbl0>>
  /\ UNCHANGED <<viewVars, ownerFilter, fetchVars, urlVars>>

\* ------------------------------------------------------------------------
\* SpecOps
\* ------------------------------------------------------------------------
\* the list view as it is before the first fetch returns
\* ------------------------------------------------------------------------
\* The single deletes of Meetings and ContactTable and the conversions
\* ------------------------------------------------------------------------
\* Meetings.handleDelete(id)
MeetingsHandleDelete ==
  /\ ctl = "meetings"
  /\ target # NoId
  /\ Begin("meetings.handleDelete")
  /\ \E ok \in BOOLEAN :
       /\ IssueCall(Call("meetings", "delete", "id", {target}, ok))
       /\ IF ok
          THEN /\ tblMain' = tblMain \ {target}
               /\ ShowToast(Toast("Success", 1, 0))
               /\ fetches' = fetches + 1
          ELSE /\ ShowToast(Toast("Error", 0, 0))
               /\ UNCHANGED <<tblMain, fetches>>
  /\ pc' = "done"
  /\ UNCHANGED <<ctl, sel, target, dlr, dbLinks, dbDeps, locals, uiFlags,
                 otherWrites>>
  /\ UNCHANGED <<viewVars, ownerFilter, fetchVars, urlVars>>

\* ContactTable.handleDelete(id)
ContactHandleDelete ==
  /\ ctl = "contacts"
  /\ target # NoId
  /\ Begin("contacts.handleDelete")
  /\ \E ok \in BOOLEAN :
       /\ IssueCall(Call("contacts", "delete", "id", {target}, ok))
       /\ IF ok
          THEN \* logDelete writes the audit table, which the model does
               \* not carry
               /\ tblMain' = tblMain \ {target}
               /\ ShowToast(Toast("Success", 1, 0))
               /\ fetches' = fetches + 1
          ELSE /\ ShowToast(Toast("Error", 0, 0))
               /\ UNCHANGED <<tblMain, fetches>>
  /\ pc' = "done"
  /\ UNCHANGED <<ctl, sel, target, dlr, dbLinks, dbDeps, locals, uiFlags,
                 otherWrites>>
  /\ UNCHANGED <<viewVars, ownerFilter, fetchVars, urlVars>>

\* ContactTable.handleConvertToLead(contact): auth.getUser(), then the
\* insert into leads, then fetchContacts()
ContactHandleConvertToLead ==
  /\ ctl = "contacts"
  /\ target # NoId
  /\ Begin("contacts.handleConvertToLead")
  /\ \E userOk \in BOOLEAN, ok \in BOOLEAN :
       IF ~userOk
       THEN \* throw new Error('User not authenticated')
            /\ IssueCall(Call("auth", "getUser", "", {}, FALSE))
            /\ ShowToast(Toast("Error", 0, 0))
            /\ UNCHANGED fetches
       ELSE /\ calls' = calls \o <<Call("auth", "getUser", "", {}, TRUE),
                                    Call("leads", "insert", "", {target}, ok)>>
            /\ IF ok
               THEN /\ ShowToast(Toast("Success", 1, 0))
                    /\ fetches' = fetches + 1
               ELSE /\ ShowToast(Toast("Error", 0, 0))
                    /\ UNCHANGED fetches
  /\ pc' = "done"
  /\ UNCHANGED <<ctl, sel, target, dlr, tblMain, dbLinks, dbDeps, locals,
                 uiFlags, otherWrites>>
  /\ UNCHANGED <<viewVars, ownerFilter, fetchVars, urlVars>>

\* LeadTable.handleConvertSuccess as the calls it issues: the update of
\* lead_status, whose failure is silent, then fetchLeads() in every case
\* and setLeadToConvert(null)
LeadHandleConvertSuccess_Update ==
  /\ ctl = "leads"
  /\ Begin("leads.handleConvertSuccess")
  /\ IF target # NoId
     THEN \E ok \in BOOLEAN :
            IssueCall(Call("leads", "update", "id", {target}, ok))
     ELSE UNCHANGED calls
  /\ fetches' = fetches + 1
  /\ target' = NoId
  /\ pc' = "done"
  /\ UNCHANGED <<ctl, sel, dlr, tblMain, toasts, dbLinks, dbDeps, locals,
                 uiFlags, otherWrites>>
  /\ UNCHANGED <<viewVars, ownerFilter, fetchVars, urlVars>>

\* no fetch has been issued; loading is useState(true)
FetchIdle ==
  /\ loading = TRUE
  /\ inflight = <<>>
  /\ leadsConverted = {}
  /\ memConverted = {}
  /\ memCounts = {}
  /\ arrived = <<>>

\* localStorage item 'deals-filters': absent, or the JSON of
\* { ...filters, searchTerm }
NoStorage == [present |-> FALSE, stages |-> "all", searchTerm |-> <<>>]
Stored(stages, term) == [present |-> TRUE, stages |-> stages,
                         searchTerm |-> term]

\* no query parameter, nothing in local storage, mount effects done
UrlIdle ==
  /\ urlStatus = "none"
  /\ urlOwner = "none"
  /\ urlViewId = FALSE
  /\ mounted = TRUE
  /\ storage = NoStorage
  /\ filtersSearchTerm = <<>>

ViewIdle ==
  /\ collection = <<>>
  /\ filtered = <<>>
  /\ searchTerm = <<>>
  /\ debouncedSearchTerm = <<>>
  /\ timerArmed = FALSE
  /\ statusFilter = "all"
  /\ sortField = IF ctl = "deals" THEN "modified_at" ELSE "none"
  /\ sortDirection = IF ctl = "deals" THEN "desc" ELSE "asc"
  /\ currentPage = 1
  /\ itemsPerPage = IF ctl = "meetings" THEN ITEMS_PER_PAGE
                                         ELSE DefaultItemsPerPage
  /\ selected = {}
  /\ pending = FALSE
  /\ lastEvent = "mount"
  /\ ownerFilter = "all"
  /\ UrlIdle

\* a controller with its tables filled, a selection made or a delete dialog
\* open on a row, and no handler running
InitOps ==
  /\ ctl \in Controllers
  /\ op = "none"
  /\ pc = "idle"
  /\ \/ sel \in SUBSET Ids /\ target = NoId /\ dialogOpen = FALSE
     \/ /\ ctl \in {"accounts", "leads", "meetings", "contacts", "deals"}
        /\ sel = {} /\ target \in Ids /\ dialogOpen = TRUE
  /\ dlr = TRUE
  /\ tblMain = Ids
  /\ IF ctl = "accounts"
     THEN contactsAccountId \in SUBSET Ids /\ leadsAccountId \in SUBSET Ids
     ELSE contactsAccountId = {} /\ leadsAccountId = {}
  /\ IF ctl = "leads"
     THEN /\ notifLeadId \in SUBSET Ids
          /\ itemsLeadId \in SUBSET Ids
          /\ notifItemOf \in SUBSET itemsLeadId
     ELSE notifLeadId = {} /\ itemsLeadId = {} /\ notifItemOf = {}
  /\ linkedContacts = NullData
  /\ linkedLeads = NullData
  /\ actionItems = NullData
  /\ deletable = {}
  /\ calls = <<>>
  /\ toasts = <<>>
  /\ fetches = 0
  /\ isBulkDeleting = FALSE
  /\ otherWrites = 0
  /\ sel0 = {}
  /\ tbl0 = Tables
  /\ ViewIdle
  /\ FetchIdle

NextOps ==
  \/ MeetingsHandleBulkDelete
  \/ ContactHandleBulkDelete
  \/ ListViewHandleBulkDelete
  \/ AccountHandleDelete_Contacts
  \/ AccountHandleDelete_Leads
  \/ AccountHandleDelete_Delete
  \/ AccountHandleBulkDelete_Contacts
  \/ AccountHandleBulkDelete_Leads
  \/ AccountHandleBulkDelete_Delete
  \/ LeadHandleDelete_Start
  \/ LeadHandleDelete_SelectItems
  \/ LeadHandleDelete_NotifItems
  \/ LeadHandleDelete_DeleteItems
  \/ LeadHandleDelete_DeleteLead
  \/ LeadHandleBulkDelete_Start
  \/ LeadHandleBulkDelete_SelectItems
  \/ LeadHandleBulkDelete_NotifItems
  \/ LeadHandleBulkDelete_DeleteItems
  \/ LeadHandleBulkDelete_DeleteLeads
  \/ OtherSessionWrite
  \/ MeetingsHandleDelete
  \/ ContactHandleDelete
  \/ ContactHandleConvertToLead
  \/ LeadHandleConvertSuccess_Update
  \/ ListViewDeleteConfirm

SpecOps == InitOps /\ [][NextOps]_vars


\* ------------------------------------------------------------------------
\* Properties of the delete handlers (SpecOps)
\* ------------------------------------------------------------------------
BulkOps == {"meetings.handleBulkDelete", "contacts.handleBulkDelete",
            "leads.handleBulkDelete", "accounts.handleBulkDelete",
            "deals.handleBulkDelete"}

Done == pc = "done"
LastToast == toasts[Len(toasts)]
Succeeded == toasts # <<>> /\ LastToast.title = "Success"
Failed == toasts # <<>> /\ LastToast.title \in {"Error", "Cannot Delete"}

IsDelete(c, table) == c.table = table /\ c.verb = "delete"
\* the delete calls issued on a table
DeleteCalls(table) == {i \in DOMAIN calls : IsDelete(calls[i], table)}
\* the table a controller's bulk delete removes rows from
MainTable == ctl

\* C1: in AccountTable.handleDelete an account that a contact or lead row
\* refers to is never deleted: no delete call on accounts is issued for it,
\* whatever the link queries returned and whatever other sessions wrote,
\* and the handler ends with the 'Cannot Delete' notification.
C1_LinkedAccountRejected ==
  op = "accounts.handleDelete" =>
    /\ \A i \in DeleteCalls("accounts") :
         calls[i].ids \cap calls[i].linked = {}
    /\ (Done /\ calls # <<>> /\ calls[1].ids \subseteq tbl0.linked
          /\ calls[1].ids \subseteq Linked)
         => (toasts # <<>> /\ LastToast.title = "Cannot Delete")

\* C2: a bulk delete of Meetings, Contacts or Leads that succeeds has
\* removed exactly the rows selected when it was invoked and leaves the
\* selection empty; the Deals list hands exactly the selected ids to
\* onDeleteDeals and leaves the selection empty.
C2_BulkDeleteRemovesSelection ==
  /\ (Done /\ Succeeded
        /\ op \in {"meetings.handleBulkDelete", "contacts.handleBulkDelete",
                   "leads.handleBulkDelete"})
       => /\ tblMain = tbl0.main \ sel0
          /\ \A i \in DeleteCalls(MainTable) : calls[i].ids = sel0
          /\ sel = {}
  /\ (Done /\ op = "deals.handleBulkDelete" /\ sel0 # {})
       => /\ Len(calls) = 1
          /\ IsDelete(calls[1], "deals")
          /\ calls[1].ids = sel0
          /\ sel = {}

\* a bulk delete of several leads succeeded
C2_Witness ==
  /\ Done /\ Succeeded
  /\ op = "leads.handleBulkDelete"
  /\ Cardinality(sel0) >= 2
  /\ tblMain = tbl0.main \ sel0
  /\ tblMain # tbl0.main

\* C3: in every controller a bulk delete whose backend delete failed leaves
\* the selection as it was when the handler was invoked.
C3_FailedBulkDeleteKeepsSelection ==
  (Done /\ op \in BulkOps
     /\ \E i \in DeleteCalls(MainTable) : ~calls[i].ok)
    => sel = sel0

\* C4: in a lead delete (single or bulk) with deleteLinkedRecords the delete
\* of notifications by lead_id and the delete of lead_action_items by
\* lead_id, both for all the leads being deleted, precede the delete on
\* leads; without deleteLinkedRecords no delete on a dependent table is
\* issued.
C4_CascadeBeforeLeads ==
  op \in {"leads.handleDelete", "leads.handleBulkDelete"} =>
    IF dlr
    THEN \A k \in DeleteCalls("leads") :
           /\ \E i \in 1..(k - 1) :
                /\ IsDelete(calls[i], "notifications")
                /\ calls[i].col = "lead_id"
                /\ calls[i].ids = calls[k].ids
           /\ \E j \in 1..(k - 1) :
                /\ IsDelete(calls[j], "lead_action_items")
                /\ calls[j].col = "lead_id"
                /\ calls[j].ids = calls[k].ids
    ELSE /\ DeleteCalls("notifications") = {}
         /\ DeleteCalls("lead_action_items") = {}

\* all leads were selected and bulk-deleted with their linked records
C4_Witness ==
  /\ Done /\ Succeeded
  /\ op = "leads.handleBulkDelete"
  /\ dlr
  /\ sel0 = Ids
  /\ tbl0.notif # {} /\ tbl0.items # {}
  /\ DeleteCalls("leads") # {}

\* C5: AccountTable.handleBulkDelete passes to the delete on accounts
\* exactly the selected accounts no contact or lead row refers to, never a
\* linked one; the counts it reports are the number deleted and the number
\* skipped and add up to the size of the selection; and when every selected
\* account is linked no delete is issued.
C5_BulkPartition ==
  op = "accounts.handleBulkDelete" =>
    /\ \A i \in DeleteCalls("accounts") :
         calls[i].ids = sel0 \ calls[i].linked
    /\ (Done /\ Succeeded)
         => /\ LastToast.n = Cardinality(tbl0.main \ tblMain)
            /\ LastToast.m = Cardinality(sel0 \cap tblMain)
            /\ LastToast.n + LastToast.m = Cardinality(sel0)
    /\ (Done /\ sel0 \subseteq tbl0.linked /\ sel0 \subseteq Linked)
         => DeleteCalls("accounts") = {}

\* C6: a bulk delete is all or nothing: in each controller whose handler
\* issues the backend calls itself (Meetings, Contacts, Leads, Accounts) it
\* ends either with success and every selected row (for Leads with cascade,
\* every dependent row too) removed, or with one error and the tables as
\* they were.
C6_AllOrNothing ==
  (Done /\ op \in BulkOps \ {"deals.handleBulkDelete"} /\ toasts # <<>>) =>
    \/ /\ LastToast.title = "Success"
       /\ tblMain \cap sel0 = {}
       /\ (op = "leads.handleBulkDelete" /\ dlr)
            => (notifLeadId \cup itemsLeadId) \cap sel0 = {}
    \/ /\ Failed
       /\ Len(toasts) = 1
       /\ tblMain = tbl0.main
       /\ notifLeadId = tbl0.notif
       /\ itemsLeadId = tbl0.items
       /\ notifItemOf = tbl0.notifItem


\* ------------------------------------------------------------------------
\* The rows of a list view
\* ------------------------------------------------------------------------
\* A string is a sequence of characters; a field that is null is Null.
Null == <<"<null>">>

\* the fetched rows: the searched name (subject, contact_name, lead_name,
\* company_name, project_name), a second searched field that may be null
\* (lead_name, company_name, customer_name), the field the dropdown filters
\* on, and the position of the name and of modified_at in sort order
RowKind(id) == (id - 1) % 3
RowName(id) ==
  CASE RowKind(id) = 0 -> <<"J", "o">>
    [] RowKind(id) = 1 -> <<"a", "c">>
    [] OTHER           -> <<"B", "o">>
RowCompany(id) ==
  CASE RowKind(id) = 0 -> <<"A", "c">>
    [] OTHER           -> Null
RowStatus(id) == IF id % 2 = 1 THEN "open" ELSE "closed"
\* the field the second dropdown filters on (created_by, contact_owner,
\* account_owner, lead_owner, assigned_to)
RowOwner(id) == IF ((id - 1) \div 2) % 2 = 0 THEN "u1" ELSE "u2"

\* getMeetingStatus(meeting) of utils/meetingStatus: the status of the
\* meeting
GetMeetingStatus(id) == RowStatus(id)

StatusOptions == {"all", "open", "closed"}
OwnerOptions == {"all", "u1", "u2"}
SearchInputs == {<<>>, <<"A", "c">>}
SortFieldsOf(c) == IF c = "deals" THEN {"name", "status", "modified_at"}
                                  ELSE {"name", "status"}

\* String.prototype.toLowerCase
LowerChar(c) ==
  CASE c = "A" -> "a"
    [] c = "B" -> "b"
    [] c = "J" -> "j"
    [] OTHER   -> c
ToLowerCase(str) == [i \in 1..Len(str) |-> LowerChar(str[i])]

\* String.prototype.includes
Includes(str, sub) ==
  \E k \in 0..(Len(str) - Len(sub)) :
    \A i \in 1..Len(sub) : str[k + i] = sub[i]

\* field?.toLowerCase().includes(searchLower): undefined (falsy) on null
FieldIncludes(field, searchLower) ==
  field # Null /\ Includes(ToLowerCase(field), searchLower)

\* variant: the search looks at the name alone
MatchesSearch_NameOnly(c, id, term) ==
  FieldIncludes(RowName(id), ToLowerCase(term))

\* the search predicate of the filter; ListView lets every row pass an
\* empty search (!allSearchTerms || ...)
MatchesSearch(c, id, term) ==
  LET searchLower == ToLowerCase(term)
      anyField == \/ FieldIncludes(RowName(id), searchLower)
                  \/ FieldIncludes(RowCompany(id), searchLower)
  IN IF c = "deals" THEN term = <<>> \/ anyField ELSE anyField

\* variant: the status filter lets every row pass
MatchesStatus_Any(id, f) == TRUE

\* the status the dropdown filter compares: Meetings filters on
\* getEffectiveStatus(meeting)
EffectiveStatus(id) ==
  IF ctl = "meetings" THEN GetMeetingStatus(id) ELSE RowStatus(id)

\* the dropdown predicates
MatchesStatus(id, f) == f = "all" \/ EffectiveStatus(id) = f
MatchesOwner(id, f) == f = "all" \/ RowOwner(id) = f

\* the value a row is sorted by, as its position in the order of the
\* comparator (localeCompare, <, subtraction)
SortKey(id, field) ==
  CASE field = "name"   -> (CASE RowKind(id) = 0 -> 3
                              [] RowKind(id) = 1 -> 1
                              [] OTHER           -> 2)
    [] field = "status" -> (IF RowStatus(id) = "closed" THEN 1 ELSE 2)
    [] OTHER            -> id

\* comparator(a, b) < 0
SortsBefore(a, b, field, dir) ==
  IF dir = "asc" THEN SortKey(a, field) < SortKey(b, field)
                 ELSE SortKey(a, field) > SortKey(b, field)

\* Array.prototype.sort is stable: x goes before the first element it
\* sorts before
InsertSorted(x, sorted, field, dir) ==
  LET before == {i \in 1..Len(sorted) : SortsBefore(x, sorted[i], field, dir)}
      pos == IF before = {} THEN Len(sorted) + 1
             ELSE CHOOSE i \in before : \A j \in before : i <= j
  IN SubSeq(sorted, 1, pos - 1) \o <<x>> \o SubSeq(sorted, pos, Len(sorted))

RECURSIVE SortRows(_, _, _)
SortRows(rows, field, dir) ==
  IF rows = <<>> THEN <<>>
  ELSE InsertSorted(rows[Len(rows)],
                    SortRows(SubSeq(rows, 1, Len(rows) - 1), field, dir),
                    field, dir)

\* variant: a row is kept when it passes the search or a dropdown filter
FilterAndSort_Or(c, rows, term, f, field, dir) ==
  LET Keep(id) == \/ MatchesSearch(c, id, term)
                  \/ MatchesStatus(id, f)
                  \/ MatchesOwner(id, ownerFilter)
      kept == SelectSeq(rows, Keep)
  IN IF field = "none" THEN kept ELSE SortRows(kept, field, dir)

\* all.filter(matchesSearch && matchesStatus && matchesOwner), then the
\* sort when a sort field is set
FilterAndSort(c, rows, term, f, field, dir) ==
  LET Keep(id) == /\ MatchesSearch(c, id, term)
                  /\ MatchesStatus(id, f)
                  /\ MatchesOwner(id, ownerFilter)
      kept == SelectSeq(rows, Keep)
  IN IF field = "none" THEN kept ELSE SortRows(kept, field, dir)

\* [searchTerm, filters.searchTerm].filter(Boolean).join(' ')
JoinTerms(a, b) ==
  IF a = <<>> THEN b
  ELSE IF b = <<>> THEN a
  ELSE a \o <<" ">> \o b

\* the search term the filter uses: Contacts and Leads debounce it, the
\* Deals list joins searchTerm and filters.searchTerm
Debounced(c) == c \in {"contacts", "leads"}
AppliedTerm ==
  IF Debounced(ctl) THEN debouncedSearchTerm
  ELSE IF ctl = "deals" THEN JoinTerms(searchTerm, filtersSearchTerm)
  ELSE searchTerm

\* ListView and TaskListView derive the filtered list in the render
Derived(c) == c \in {"deals", "tasks"}

\* the filtered list a render works with: state that an effect fills, or
\* filteredAndSortedDeals / filteredTasks, computed in the render
FilteredRows ==
  IF Derived(ctl)
  THEN FilterAndSort(ctl, collection, AppliedTerm, statusFilter, sortField,
                     sortDirection)
  ELSE filtered

\* variant: the window takes the element at its end index too
Slice_Inclusive(rows, from, to) ==
  LET hi == IF to + 1 < Len(rows) THEN to + 1 ELSE Len(rows)
  IN IF from >= hi THEN <<>> ELSE SubSeq(rows, from + 1, hi)

\* slice(startIndex, startIndex + itemsPerPage)
Slice(rows, from, to) ==
  LET hi == IF to < Len(rows) THEN to ELSE Len(rows)
  IN IF from >= hi THEN <<>> ELSE SubSeq(rows, from + 1, hi)
PageOf(rows, page, size) == Slice(rows, (page - 1) * size, page * size)
PageRows == PageOf(FilteredRows, currentPage, itemsPerPage)

\* Math.ceil(filtered.length / itemsPerPage)
TotalPages == (Len(FilteredRows) + itemsPerPage - 1) \div itemsPerPage

Range(seq) == {seq[i] : i \in 1..Len(seq)}
Min(a, b) == IF a < b THEN a ELSE b
Max(a, b) == IF a > b THEN a ELSE b

\* the rows of the backend in the order of the fetch
RECURSIVE Ordered(_)
Ordered(S) ==
  IF S = {} THEN <<>>
  ELSE LET m == CHOOSE x \in S : \A y \in S : x >= y
       IN Append(Ordered(S \ {m}), m)


\* ------------------------------------------------------------------------
\* The list view (SpecView)
\* ------------------------------------------------------------------------
\* An effect scheduled by a render runs before the next event is handled:
\* while one is pending no other step is taken.
Ready == ~pending

\* the checked prop of the header checkbox
HeaderChecked ==
  CASE ctl = "meetings" ->
         \* isAllSelected
         Len(PageRows) > 0 /\ \A i \in 1..Len(PageRows) : PageRows[i] \in selected
    [] ctl = "deals" ->
         Cardinality(selected) = Len(PageRows) /\ Len(PageRows) > 0
    [] OTHER ->
         /\ Cardinality(selected) > 0
         /\ Cardinality(selected) = Min(Len(PageRows), SelectAllCap)

\* a fetch of Meetings, Contacts, Leads or Accounts returns: setMeetings /
\* setContacts / setLeads / setAccounts, and in Meetings setSelectedMeetings([])
FetchResolved ==
  /\ Ready
  /\ ~Derived(ctl)
  /\ \E S \in SUBSET RowIds : collection' = Ordered(S)
  /\ selected' = IF ctl = "meetings" THEN {} ELSE selected
  /\ pending' = TRUE
  /\ lastEvent' = "fetch"
  /\ UNCHANGED <<filtered, searchTerm, debouncedSearchTerm, timerArmed,
                 statusFilter, sortField, sortDirection, currentPage,
                 itemsPerPage>>
  /\ UNCHANGED <<opsVars, ownerFilter, fetchVars, urlVars>>

\* the parent of the Deals list passes a new deals prop; no effect of
\* ListView depends on it
DealsPropChanged ==
  /\ Ready
  /\ Derived(ctl)
  /\ \E S \in SUBSET RowIds : collection' = Ordered(S)
  /\ lastEvent' = "fetch"
  /\ UNCHANGED <<filtered, searchTerm, debouncedSearchTerm, timerArmed,
                 statusFilter, sortField, sortDirection, currentPage,
                 itemsPerPage, selected, pending>>
  /\ UNCHANGED <<opsVars, ownerFilter, fetchVars, urlVars>>

\* onChange of the search input: setSearchTerm. Contacts and Leads restart
\* the debounce timer; the others filter on searchTerm itself.
SetSearchTerm ==
  /\ Ready
  /\ \E t \in SearchInputs :
       /\ t # searchTerm
       /\ searchTerm' = t
  /\ IF Debounced(ctl)
     THEN /\ timerArmed' = TRUE
          /\ lastEvent' = "typing"
          /\ UNCHANGED pending
     ELSE /\ pending' = TRUE
          /\ lastEvent' = "search"
          /\ UNCHANGED timerArmed
  /\ UNCHANGED <<collection, filtered, debouncedSearchTerm, statusFilter,
                 sortField, sortDirection, currentPage, itemsPerPage,
                 selected>>
  /\ UNCHANGED <<opsVars, ownerFilter, fetchVars, urlVars>>

\* the debounce timer fires: setDebouncedSearchTerm(searchTerm)
DebounceFires ==
  /\ Ready
  /\ timerArmed
  /\ timerArmed' = FALSE
  /\ debouncedSearchTerm' = searchTerm
  /\ IF debouncedSearchTerm # searchTerm
     THEN pending' = TRUE /\ lastEvent' = "search"
     ELSE UNCHANGED <<pending, lastEvent>>
  /\ UNCHANGED <<collection, filtered, searchTerm, statusFilter, sortField,
                 sortDirection, currentPage, itemsPerPage, selected>>
  /\ UNCHANGED <<opsVars, ownerFilter, fetchVars, urlVars>>

\* onValueChange of the dropdown filter: setStatusFilter / setSourceFilter /
\* setFilters
SetStatusFilter ==
  /\ Ready
  /\ \E f \in StatusOptions :
       /\ f # statusFilter
       /\ statusFilter' = f
  /\ pending' = TRUE
  /\ lastEvent' = "filter"
  /\ UNCHANGED <<collection, filtered, searchTerm, debouncedSearchTerm,
                 timerArmed, sortField, sortDirection, currentPage,
                 itemsPerPage, selected>>
  /\ UNCHANGED <<opsVars, ownerFilter, fetchVars, urlVars>>

Flip(dir) == IF dir = "asc" THEN "desc" ELSE "asc"

\* handleSort of Meetings, Contacts, Leads and Accounts
HandleSort(field) ==
  /\ Ready
  /\ ctl # "deals"
  /\ IF sortField = field
     THEN /\ sortDirection' = Flip(sortDirection)
          /\ UNCHANGED sortField
     ELSE /\ sortField' = field
          /\ sortDirection' = "asc"
  /\ pending' = TRUE
  /\ lastEvent' = "sort"
  /\ UNCHANGED <<collection, filtered, searchTerm, debouncedSearchTerm,
                 timerArmed, statusFilter, currentPage, itemsPerPage,
                 selected>>
  /\ UNCHANGED <<opsVars, ownerFilter, fetchVars, urlVars>>

\* onClick of a column header of the Deals list; the page-reset effect of
\* ListView does not depend on sortBy or sortOrder
ListViewHeaderClick(field) ==
  /\ Ready
  /\ ctl = "deals"
  /\ IF sortField = field
     THEN /\ sortDirection' = Flip(sortDirection)
          /\ UNCHANGED sortField
     ELSE /\ sortField' = field
          /\ sortDirection' = "desc"
  /\ lastEvent' = "sort"
  /\ UNCHANGED <<collection, filtered, searchTerm, debouncedSearchTerm,
                 timerArmed, statusFilter, currentPage, itemsPerPage,
                 selected, pending>>
  /\ UNCHANGED <<opsVars, ownerFilter, fetchVars, urlVars>>

\* the effect that follows a change of the collection, the applied search
\* term, a filter or the sort: setFiltered...(filtered); setCurrentPage(1).
\* In the Deals list it is the page-reset effect alone.
RunEffect ==
  /\ pending
  /\ pending' = FALSE
  /\ filtered' = IF Derived(ctl) THEN filtered
                 ELSE FilterAndSort(ctl, collection, AppliedTerm,
                                    statusFilter, sortField, sortDirection)
  /\ currentPage' = 1
  /\ storage' = IF ctl = "deals" THEN Stored(statusFilter, searchTerm)
                                  ELSE storage
  /\ UNCHANGED <<collection, searchTerm, debouncedSearchTerm, timerArmed,
                 statusFilter, sortField, sortDirection, itemsPerPage,
                 selected, lastEvent>>
  /\ UNCHANGED <<opsVars, ownerFilter, fetchVars>>
  /\ UNCHANGED <<urlStatus, urlOwner, urlViewId, mounted, filtersSearchTerm>>

\* the Previous button: disabled on page 1
PreviousPage ==
  /\ Ready
  /\ TotalPages > 0
  /\ currentPage # 1
  /\ currentPage' = Max(1, currentPage - 1)
  /\ lastEvent' = "page"
  /\ UNCHANGED <<collection, filtered, searchTerm, debouncedSearchTerm,
                 timerArmed, statusFilter, sortField, sortDirection,
                 itemsPerPage, selected, pending>>
  /\ UNCHANGED <<opsVars, ownerFilter, fetchVars, urlVars>>

\* the Next button: disabled on the last page
NextPage ==
  /\ Ready
  /\ TotalPages > 0
  /\ currentPage # TotalPages
  /\ currentPage' = Min(TotalPages, currentPage + 1)
  /\ lastEvent' = "page"
  /\ UNCHANGED <<collection, filtered, searchTerm, debouncedSearchTerm,
                 timerArmed, statusFilter, sortField, sortDirection,
                 itemsPerPage, selected, pending>>
  /\ UNCHANGED <<opsVars, ownerFilter, fetchVars, urlVars>>

\* the page size selector (Meetings has a fixed page size)
SetItemsPerPage ==
  /\ Ready
  /\ ctl # "meetings"
  /\ \E n \in PAGE_SIZE_OPTIONS :
       /\ n # itemsPerPage
       /\ itemsPerPage' = n
  /\ lastEvent' = "pageSize"
  /\ UNCHANGED <<collection, filtered, searchTerm, debouncedSearchTerm,
                 timerArmed, statusFilter, sortField, sortDirection,
                 currentPage, selected, pending>>
  /\ UNCHANGED <<opsVars, ownerFilter, fetchVars, urlVars>>

\* the checkbox of a row of the page: handleSelectMeeting / handleSelectContact
\* / handleSelectLead / handleSelectAccount / handleSelectDeal with
\* checked = the row is not selected yet
HandleSelectRow ==
  /\ Ready
  /\ \E i \in 1..Len(PageRows) :
       LET id == PageRows[i]
       IN selected' = IF id \in selected THEN selected \ {id}
                                         ELSE selected \cup {id}
  /\ lastEvent' = "select"
  /\ UNCHANGED <<collection, filtered, searchTerm, debouncedSearchTerm,
                 timerArmed, statusFilter, sortField, sortDirection,
                 currentPage, itemsPerPage, pending>>
  /\ UNCHANGED <<opsVars, ownerFilter, fetchVars, urlVars>>

\* what handleSelectAll(true) selects
SelectAllIds ==
  CASE ctl = "meetings" -> Range(PageRows)
    [] ctl = "deals"    -> Range(FilteredRows)
    [] OTHER            -> Range(Slice(PageRows, 0, SelectAllCap))

\* the header checkbox: handleSelectAll(checked) with checked = the box is
\* not checked yet
HandleSelectAll ==
  /\ Ready
  /\ selected' = IF ~HeaderChecked THEN SelectAllIds ELSE {}
  /\ lastEvent' = "selectAll"
  /\ UNCHANGED <<collection, filtered, searchTerm, debouncedSearchTerm,
                 timerArmed, statusFilter, sortField, sortDirection,
                 currentPage, itemsPerPage, pending>>
  /\ UNCHANGED <<opsVars, ownerFilter, fetchVars, urlVars>>

\* no handler runs in SpecView
OpsIdle ==
  /\ op = "none"
  /\ pc = "idle"
  /\ sel = {}
  /\ target = NoId
  /\ dlr = TRUE
  /\ tblMain = {}
  /\ contactsAccountId = {}
  /\ leadsAccountId = {}
  /\ notifLeadId = {}
  /\ itemsLeadId = {}
  /\ notifItemOf = {}
  /\ linkedContacts = NullData
  /\ linkedLeads = NullData
  /\ actionItems = NullData
  /\ deletable = {}
  /\ calls = <<>>
  /\ toasts = <<>>
  /\ fetches = 0
  /\ isBulkDeleting = FALSE
  /\ dialogOpen = FALSE
  /\ otherWrites = 0
  /\ sel0 = {}
  /\ tbl0 = Tables

\* a mounted list view whose first fetch has not returned
InitView ==
  /\ ctl \in Controllers
  /\ OpsIdle
  /\ ViewIdle
  /\ FetchIdle

NextView ==
  \/ FetchResolved
  \/ DealsPropChanged
  \/ SetSearchTerm
  \/ DebounceFires
  \/ SetStatusFilter
  \/ \E field \in SortFieldsOf(ctl) : HandleSort(field)
  \/ \E field \in SortFieldsOf(ctl) : ListViewHeaderClick(field)
  \/ RunEffect
  \/ PreviousPage
  \/ NextPage
  \/ SetItemsPerPage
  \/ HandleSelectRow
  \/ HandleSelectAll

SpecView == InitView /\ [][NextView]_vars


\* ------------------------------------------------------------------------
\* The filters of a list view (SpecFilter)
\* ------------------------------------------------------------------------
\* onValueChange of the second dropdown: setOrganizerFilter /
\* setOwnerFilter / setLeadOwnerFilter / setAssignedToFilter
SetOwnerFilter ==
  /\ Ready
  /\ \E f \in OwnerOptions :
       /\ f # ownerFilter
       /\ ownerFilter' = f
  /\ pending' = TRUE
  /\ lastEvent' = "filter"
  /\ UNCHANGED <<collection, filtered, searchTerm, debouncedSearchTerm,
                 timerArmed, statusFilter, sortField, sortDirection,
                 currentPage, itemsPerPage, selected>>
  /\ UNCHANGED <<opsVars, fetchVars, urlVars>>

\* the pager is rendered when totalPages > 0 and reads
\* Page {currentPage} of {totalPages || 1}
PagerShown == TotalPages > 0
PagerLabel == <<currentPage, IF TotalPages = 0 THEN 1 ELSE TotalPages>>

\* a mounted list view or task list whose rows have not arrived
InitFilter ==
  /\ ctl \in Controllers \cup {"tasks"}
  /\ OpsIdle
  /\ ViewIdle
  /\ FetchIdle

NextFilter ==
  \/ FetchResolved
  \/ DealsPropChanged
  \/ SetSearchTerm
  \/ DebounceFires
  \/ SetStatusFilter
  \/ SetOwnerFilter
  \/ RunEffect
  \/ PreviousPage
  \/ NextPage
  \/ SetItemsPerPage

SpecFilter == InitFilter /\ [][NextFilter]_vars


\* ------------------------------------------------------------------------
\* Properties of the list view (SpecView)
\* ------------------------------------------------------------------------

\* C7: in every state of every list view the rows of the current page are
\* rows of the filtered list and the rows of the filtered list are rows of
\* the fetched collection, also between a change of the collection and the
\* effect that derives the filtered list again.
C7_PageWithinFilteredWithinAll ==
  /\ Range(PageRows) \subseteq Range(FilteredRows)
  /\ Range(FilteredRows) \subseteq Range(collection)

\* C8: once a change of the dropdown filter, of the applied search term or
\* of the sort column or direction has been processed, currentPage is 1.
C8_ChangeResetsPage ==
  (~pending /\ lastEvent \in {"filter", "search", "sort"}) => currentPage = 1

\* C9: a click on the header of the active sort column keeps the column and
\* flips the direction; a click on the header of another column makes it
\* the sort column with direction ascending.
C9_SortToggle ==
  [][\A field \in SortFieldsOf(ctl) :
       (HandleSort(field) \/ ListViewHeaderClick(field)) =>
         /\ sortField' = field
         /\ sortDirection' = IF sortField = field
                             THEN Flip(sortDirection) ELSE "asc"]_vars

\* C10: whenever the list view has settled, the header checkbox is checked
\* iff the current page is not empty and every row of it is selected.
C10_HeaderCheckedIffPageSelected ==
  ~pending =>
    (HeaderChecked <=>
       (Len(PageRows) > 0 /\ Range(PageRows) \subseteq selected))


\* C11: checking the header checkbox sets the selection to the first
\* min(cap, page length) rows of the current page and to no row of another
\* page; unchecking it empties the selection.
C11_SelectAllIsPageCapped ==
  [][HandleSelectAll =>
       selected' = IF ~HeaderChecked
                   THEN Range(Slice(PageRows, 0, SelectAllCap))
                   ELSE {}]_vars


\* ------------------------------------------------------------------------
\* Fetching the collection (SpecFetch): fetchMeetings, fetchContacts,
\* fetchLeads, fetchAccounts and the handlers that call them after a write
\* ------------------------------------------------------------------------
Fetching == {"meetings", "contacts", "leads", "accounts"}

\* the variables of the other specifications that no step of a fetch changes
opsRest == <<ctl, op, pc, sel, target, dlr, contactsAccountId, leadsAccountId,
             notifLeadId, itemsLeadId, notifItemOf, linkedContacts,
             linkedLeads, deletable, actionItems, calls, isBulkDeleting,
             dialogOpen, otherWrites, sel0, tbl0>>
viewRest == <<filtered, searchTerm, debouncedSearchTerm, timerArmed,
              statusFilter, sortField, sortDirection, currentPage,
              itemsPerPage, ownerFilter, urlVars>>

\* a request as sent: nothing read yet
Request(n) == [seq |-> n, stage |-> "sent", ok |-> TRUE, countsOk |-> TRUE,
               rows |-> {}, conv |-> {}, counts |-> {}]

\* the start of fetchMeetings / fetchContacts / fetchLeads / fetchAccounts:
\* setLoading(true) and the request leaves
StartFetch ==
  /\ fetches < MaxFetches
  /\ Len(inflight) < MaxInFlight
  /\ loading' = TRUE
  /\ fetches' = fetches + 1
  /\ inflight' = Append(inflight, Request(fetches + 1))

\* the history keeps the two responses handled last
Recent(seq) == IF Len(seq) > 2 THEN Tail(seq) ELSE seq

RemoveAt(seq, i) == SubSeq(seq, 1, i - 1) \o SubSeq(seq, i + 1, Len(seq))

\* a fetch not caused by a write of this view: the mount effect, the
\* refreshTrigger effect, onSuccess of a modal
FetchCollection ==
  /\ ctl \in Fetching
  /\ Ready
  /\ StartFetch
  /\ lastEvent' = "fetchStart"
  /\ UNCHANGED <<tblMain, toasts, collection, selected, pending,
                 leadsConverted, memConverted, memCounts, arrived>>
  /\ UNCHANGED <<opsRest, viewRest>>

\* handleDelete of a displayed row on the path where the backend delete
\* succeeded: the row is gone, toast Success, then the re-fetch
HandleDelete_Deleted ==
  /\ ctl \in Fetching
  /\ Ready
  /\ \E id \in Range(collection) : tblMain' = tblMain \ {id}
  /\ ShowToast(Toast("Success", 1, 0))
  /\ StartFetch
  /\ lastEvent' = "delete"
  /\ UNCHANGED <<collection, selected, pending, leadsConverted,
                 memConverted, memCounts, arrived>>
  /\ UNCHANGED <<opsRest, viewRest>>

\* LeadTable.handleConvertSuccess: the status update; when it did not fail
\* the row is patched in memory; then fetchLeads()
LeadHandleConvertSuccess ==
  /\ ctl = "leads"
  /\ Ready
  /\ \E id \in Range(collection), ok \in BOOLEAN :
       IF ok
       THEN /\ leadsConverted' = leadsConverted \cup ({id} \cap tblMain)
            /\ memConverted' = memConverted \cup {id}
            /\ pending' = TRUE
       ELSE UNCHANGED <<leadsConverted, memConverted, pending>>
  /\ StartFetch
  /\ lastEvent' = "convert"
  /\ UNCHANGED <<tblMain, toasts, collection, selected, memCounts, arrived>>
  /\ UNCHANGED <<opsRest, viewRest>>

\* the backend answers the query on the collection's table
BackendRead(i) ==
  /\ i \in DOMAIN inflight
  /\ inflight[i].stage = "sent"
  /\ \E ok \in BOOLEAN :
       inflight' = [inflight EXCEPT ![i] =
         IF ok
         THEN [@ EXCEPT !.stage = IF ctl = "accounts" THEN "counts"
                                                      ELSE "answered",
                        !.rows = tblMain,
                        !.conv = leadsConverted \cap tblMain]
         ELSE [@ EXCEPT !.stage = "answered", !.ok = FALSE]]
  /\ UNCHANGED <<tblMain, toasts, fetches, collection, selected, pending,
                 lastEvent, loading, leadsConverted, memConverted, memCounts,
                 arrived>>
  /\ UNCHANGED <<opsRest, viewRest>>

\* fetchAccounts: the query for the contact counts, whose error is not read
BackendReadCounts(i) ==
  /\ i \in DOMAIN inflight
  /\ inflight[i].stage = "counts"
  /\ \E ok \in BOOLEAN :
       inflight' = [inflight EXCEPT ![i] =
         [@ EXCEPT !.stage = "answered",
                   !.countsOk = ok,
                   !.counts = IF ok
                              THEN contactsAccountId \cap inflight[i].rows
                              ELSE {}]]
  /\ UNCHANGED <<tblMain, toasts, fetches, collection, selected, pending,
                 lastEvent, loading, leadsConverted, memConverted, memCounts,
                 arrived>>
  /\ UNCHANGED <<opsRest, viewRest>>

\* variant: the response of a fetch that a later fetch has superseded is
\* dropped, as it would be if issuing a fetch cancelled the earlier ones
FetchCollection_Return_Cancels(i) ==
  /\ i \in DOMAIN inflight
  /\ inflight[i].stage = "answered"
  /\ Ready
  /\ IF inflight[i].seq # fetches
     THEN UNCHANGED <<collection, memConverted, memCounts, selected,
                      pending, toasts>>
     ELSE IF inflight[i].ok
     THEN /\ collection' = Ordered(inflight[i].rows)
          /\ memConverted' = inflight[i].conv
          /\ memCounts' = inflight[i].counts
          /\ selected' = IF ctl = "meetings" THEN {} ELSE selected
          /\ pending' = TRUE
          /\ UNCHANGED toasts
     ELSE /\ ShowToast(Toast("Error", 0, 0))
          /\ UNCHANGED <<collection, memConverted, memCounts, selected,
                         pending>>
  /\ loading' = FALSE
  /\ inflight' = RemoveAt(inflight, i)
  /\ arrived' = Recent(Append(arrived, inflight[i]))
  /\ lastEvent' = "fetch"
  /\ UNCHANGED <<tblMain, fetches, leadsConverted>>
  /\ UNCHANGED <<opsRest, viewRest>>

\* the rest of the fetch function once the response is there: on error the
\* toast, else setMeetings / setContacts / setLeads / setAccounts (Meetings
\* also setSelectedMeetings([])); finally setLoading(false)
FetchCollection_Return(i) ==
  /\ i \in DOMAIN inflight
  /\ inflight[i].stage = "answered"
  /\ Ready
  /\ IF inflight[i].ok
     THEN /\ collection' = Ordered(inflight[i].rows)
          /\ memConverted' = inflight[i].conv
          /\ memCounts' = inflight[i].counts
          /\ selected' = IF ctl = "meetings" THEN {} ELSE selected
          /\ pending' = TRUE
          /\ UNCHANGED toasts
     ELSE /\ ShowToast(Toast("Error", 0, 0))
          /\ UNCHANGED <<collection, memConverted, memCounts, selected,
                         pending>>
  /\ loading' = FALSE
  /\ inflight' = RemoveAt(inflight, i)
  /\ arrived' = Recent(Append(arrived, inflight[i]))
  /\ lastEvent' = "fetch"
  /\ UNCHANGED <<tblMain, fetches, leadsConverted>>
  /\ UNCHANGED <<opsRest, viewRest>>

\* a mounted list view with its table filled and no fetch issued yet
InitFetch ==
  /\ ctl \in Fetching
  /\ op = "none"
  /\ pc = "idle"
  /\ sel = {}
  /\ target = NoId
  /\ dlr = TRUE
  /\ tblMain = Ids
  /\ IF ctl = "accounts" THEN contactsAccountId \in SUBSET {1}
                         ELSE contactsAccountId = {}
  /\ leadsAccountId = {}
  /\ notifLeadId = {}
  /\ itemsLeadId = {}
  /\ notifItemOf = {}
  /\ linkedContacts = NullData
  /\ linkedLeads = NullData
  /\ actionItems = NullData
  /\ deletable = {}
  /\ calls = <<>>
  /\ toasts = <<>>
  /\ fetches = 0
  /\ isBulkDeleting = FALSE
  /\ dialogOpen = FALSE
  /\ otherWrites = 0
  /\ sel0 = {}
  /\ tbl0 = Tables
  /\ ViewIdle
  /\ FetchIdle

NextFetch ==
  \/ FetchCollection
  \/ HandleDelete_Deleted
  \/ LeadHandleConvertSuccess
  \/ \E i \in 1..MaxInFlight : BackendRead(i)
  \/ \E i \in 1..MaxInFlight : BackendReadCounts(i)
  \/ \E i \in 1..MaxInFlight : FetchCollection_Return(i)
  \/ RunEffect

SpecFetch == InitFetch /\ [][NextFetch]_vars


\* ------------------------------------------------------------------------
\* Properties of fetching (SpecFetch)
\* ------------------------------------------------------------------------
\* the response of fetch i is handled in this step
Handled(i) ==
  /\ i \in DOMAIN inflight
  /\ inflight[i].stage = "answered"
  /\ arrived' = Recent(Append(arrived, inflight[i]))

\* C12: when a fetch of the collection failed (a query of it returned an
\* error), handling its response leaves the in-memory collection and the
\* filtered list as they were, shows one error notification and clears the
\* loading flag.
C12_FailedFetchKeepsCollection ==
  [][\A i \in 1..MaxInFlight :
       (Handled(i) /\ (~inflight[i].ok \/ ~inflight[i].countsOk)) =>
         /\ collection' = collection
         /\ memConverted' = memConverted
         /\ memCounts' = memCounts
         /\ filtered' = filtered
         /\ toasts' = Append(toasts, Toast("Error", 0, 0))
         /\ loading' = FALSE]_vars


\* the rows held in memory, with the fields of them the model carries
InMemory == <<collection, memConverted, memCounts>>

\* C14: the in-memory collection changes only in a step that handles the
\* response of a successful fetch, and then it becomes that response's
\* rows; no other step patches rows of it.
C14_OnlyFetchReplaces ==
  [][InMemory' # InMemory =>
       \E i \in 1..MaxInFlight :
         /\ Handled(i)
         /\ inflight[i].ok
         /\ InMemory' = <<Ordered(inflight[i].rows), inflight[i].conv,
                          inflight[i].counts>>]_vars

\* C16: a fetch in flight is never cancelled: it stays in flight until
\* its response is handled, and a successful response replaces the
\* collection with its own snapshot whichever other fetches were issued
\* before or after it.
C16_EveryResponseApplied ==
  [][/\ \A i \in DOMAIN inflight :
          \/ Handled(i)
          \/ \E k \in DOMAIN inflight' : inflight'[k].seq = inflight[i].seq
     /\ \A i \in 1..MaxInFlight :
          (Handled(i) /\ inflight[i].ok) =>
            InMemory' = <<Ordered(inflight[i].rows), inflight[i].conv,
                          inflight[i].counts>>]_vars

\* two fetches were in flight together, the later one was answered and
\* handled first, and with no fetch left in flight the collection is the
\* snapshot of the earlier one while the table is as the later one saw it
C16_Witness ==
  /\ inflight = <<>>
  /\ \E j \in DOMAIN arrived :
       LET k == Len(arrived) IN
         /\ j < k
         /\ arrived[j].seq > arrived[k].seq
         /\ arrived[j].ok /\ arrived[k].ok
         /\ arrived[j].rows # arrived[k].rows
         /\ arrived[j].rows = tblMain
         /\ collection = Ordered(arrived[k].rows)

\* ------------------------------------------------------------------------
\* Properties of the list view, continued (SpecView)
\* ------------------------------------------------------------------------
\* C17: the search term the filter uses changes only when the debounce
\* timer fires, never in the step of a keystroke.
C17_SearchIsDebounced ==
  [][AppliedTerm' # AppliedTerm => (timerArmed /\ ~timerArmed')]_vars

\* ------------------------------------------------------------------------
\* Properties of the filters (SpecFilter)
\* ------------------------------------------------------------------------
\* the fields of a row the search looks at
SearchedFields(id) == {RowName(id), RowCompany(id)}

\* field contains term as a substring when case is ignored
ContainsIgnoreCase(field, term) ==
  /\ field # Null
  /\ \E k \in 0..(Len(field) - Len(term)) :
       \A i \in 1..Len(term) : LowerChar(field[k + i]) = LowerChar(term[i])

PassesSearch(id) ==
  \E field \in SearchedFields(id) : ContainsIgnoreCase(field, AppliedTerm)

\* C18: with the dropdown filters at 'all', a row of the collection is in
\* the filtered list exactly when at least one of its searched fields
\* contains the applied search term as a case-insensitive substring.
C18_SearchPassIffFieldContains ==
  (~pending /\ statusFilter = "all" /\ ownerFilter = "all") =>
    \A id \in Range(collection) :
      id \in Range(FilteredRows) <=> PassesSearch(id)

\* a contact whose name does not contain the term and whose company does is
\* in the filtered list, and a row none of whose fields contains it is not
C18_Witness ==
  /\ ctl = "contacts"
  /\ ~pending /\ statusFilter = "all" /\ ownerFilter = "all"
  /\ AppliedTerm # <<>>
  /\ \E id \in Range(FilteredRows) :
       /\ ~ContainsIgnoreCase(RowName(id), AppliedTerm)
       /\ ContainsIgnoreCase(RowCompany(id), AppliedTerm)
  /\ \E id \in Range(collection) : ~PassesSearch(id)

\* C19: once the filter has been applied, the filtered list holds exactly
\* the rows of the collection that pass the search and the status filter
\* and the owner filter, each once; a filter at 'all' lets every row pass.
C19_FilteredIsConjunction ==
  ~pending =>
    /\ Range(FilteredRows) =
         {id \in Range(collection) :
            /\ PassesSearch(id)
            /\ statusFilter \in {"all", EffectiveStatus(id)}
            /\ ownerFilter \in {"all", RowOwner(id)}}
    /\ Len(FilteredRows) = Cardinality(Range(FilteredRows))

\* search, status filter and owner filter are all active; each of them
\* alone lets a row pass that the others reject, and one row passes all
C19_Witness ==
  /\ ~pending
  /\ AppliedTerm # <<>> /\ statusFilter # "all" /\ ownerFilter # "all"
  /\ Range(FilteredRows) # {}
  /\ \E id \in Range(collection) :
       PassesSearch(id) /\ id \notin Range(FilteredRows)
  /\ \E id \in Range(collection) :
       EffectiveStatus(id) = statusFilter /\ id \notin Range(FilteredRows)
  /\ \E id \in Range(collection) :
       RowOwner(id) = ownerFilter /\ id \notin Range(FilteredRows)

\* the meetings the status filter is set to
WithStatus == {id \in Range(collection) :
                 GetMeetingStatus(id) = statusFilter}

WriteApplied ==
  \/ tblMain # tbl0.main
  \/ notifLeadId # tbl0.notif
  \/ itemsLeadId # tbl0.items
  \/ notifItemOf # tbl0.notifItem
  \/ \E i \in DOMAIN calls :
       calls[i].verb \in {"insert", "update"} /\ calls[i].ok

\* C13: an operation of Meetings, ContactTable, LeadTable or AccountTable
\* that has applied a write at the backend has issued a fetch of the
\* collection by the time it finishes.
C13_WriteThenFetch ==
  (Done /\ ctl # "deals" /\ WriteApplied) => fetches > 0

\* the error notifications shown so far
ErrorToasts == {j \in DOMAIN toasts : toasts[j].title = "Error"}

\* C15: in an operation of Meetings, ContactTable, LeadTable or
\* AccountTable a backend call that failed is the last call the operation
\* issued, and the finished operation has shown exactly one error
\* notification for it.
C15_FirstFailureEnds ==
  ctl # "deals" =>
    \A i \in DOMAIN calls :
      ~calls[i].ok =>
        /\ i = Len(calls)
        /\ Done => Cardinality(ErrorToasts) = 1

\* ------------------------------------------------------------------------
\* Properties of the pager (SpecFilter)
\* ------------------------------------------------------------------------
\* pages 1..q of rows, one after the other
RECURSIVE ConcatPages(_, _, _)
ConcatPages(rows, size, q) ==
  IF q = 0 THEN <<>>
  ELSE ConcatPages(rows, size, q - 1) \o PageOf(rows, q, size)

\* C21: the rows of page p at page size s are the elements of the filtered
\* and sorted list at positions (p-1)*s up to but excluding p*s, in that
\* order; the pages 1..ceil(n/s) are pairwise disjoint and one after the
\* other they are the whole list.
C21_PagesPartition ==
  LET n == Len(FilteredRows)
      lo == (currentPage - 1) * itemsPerPage
      hi == Min(currentPage * itemsPerPage, n)
  IN /\ Len(PageRows) = Max(hi - lo, 0)
     /\ \A i \in 1..Len(PageRows) : PageRows[i] = FilteredRows[lo + i]
     /\ ConcatPages(FilteredRows, itemsPerPage, TotalPages) = FilteredRows
     /\ \A p, q \in 1..TotalPages :
          p # q => Range(PageOf(FilteredRows, p, itemsPerPage))
                     \cap Range(PageOf(FilteredRows, q, itemsPerPage)) = {}

\* the last of several pages is shown and it is not full
C21_Witness ==
  /\ TotalPages >= 2
  /\ currentPage = TotalPages
  /\ itemsPerPage > 1
  /\ Len(PageRows) > 0
  /\ Len(PageRows) < itemsPerPage

\* ------------------------------------------------------------------------
\* Query parameters and local storage (SpecUrl)
\* ------------------------------------------------------------------------
UrlStatusValues == {"none"} \cup (StatusOptions \ {"all"})
UrlOwnerValues == {"none", "me"}
\* user.id / currentUserId
CurrentUser == "u1"

\* searchParams.get('status') || 'all', initialStatus = "all",
\* initialStageFilter = 'all'
Seeded(st) == IF st = "none" THEN "all" ELSE st

\* controllers that read the owner parameter, and those whose viewId
\* effect opens a record
ReadsOwnerParam(c) == c \in {"meetings", "contacts", "leads", "accounts"}
OpensViewId(c) == c \in {"meetings", "contacts", "leads", "accounts"}

\* the owner sync effect: owner=me selects the current user, no owner
\* parameter resets the filter to 'all'
OwnerSynced(ow) == IF ow = "me" THEN CurrentUser ELSE "all"

\* the mount effects, run to quiescence over the state the useState
\* initializers built from stage st0: the sync effects of status and
\* owner; in the Deals list the stage sync (a functional update) and then
\* setFilters(parsed) / setSearchTerm(parsed.searchTerm) of the saved
\* filters, which replace it, and the persist effect of the final state
MountEffects(st0) ==
  /\ mounted' = TRUE
  /\ IF ctl = "deals" /\ storage.present
     THEN /\ statusFilter' = storage.stages
          /\ searchTerm' = storage.searchTerm
          /\ filtersSearchTerm' = storage.searchTerm
     ELSE /\ statusFilter' = st0
          /\ searchTerm' = <<>>
          /\ filtersSearchTerm' = <<>>
  /\ storage' = IF ctl = "deals" THEN Stored(statusFilter', searchTerm')
                                  ELSE storage
  /\ ownerFilter' = IF ReadsOwnerParam(ctl) THEN OwnerSynced(urlOwner)
                                            ELSE "all"
  /\ debouncedSearchTerm' = <<>>
  /\ timerArmed' = FALSE
  /\ currentPage' = 1
  /\ pending' = FALSE

\* the first commit of a list view: its mount effects run
Mount ==
  /\ ~mounted
  /\ MountEffects(statusFilter)
  /\ filtered' = <<>>
  /\ lastEvent' = "mounted"
  /\ UNCHANGED <<collection, sortField, sortDirection, itemsPerPage,
                 selected>>
  /\ UNCHANGED <<urlStatus, urlOwner, urlViewId>>
  /\ UNCHANGED <<opsVars, fetchVars>>

\* the browser reloads the Deals page: the list is built and mounted again
\* over the same deals, with local storage as the persist effect left it
Reload ==
  /\ mounted
  /\ Ready
  /\ ctl = "deals"
  /\ MountEffects(Seeded(urlStatus))
  /\ sortField' = "modified_at"
  /\ sortDirection' = "desc"
  /\ itemsPerPage' = DefaultItemsPerPage
  /\ selected' = {}
  /\ lastEvent' = "reload"
  /\ UNCHANGED <<collection, filtered>>
  /\ UNCHANGED <<urlStatus, urlOwner, urlViewId>>
  /\ UNCHANGED <<opsVars, fetchVars>>

\* a navigation inside the application changes the query parameters (or
\* the props the parent derives from them) of the mounted view; the sync
\* effects whose dependencies changed run
Navigate ==
  /\ mounted
  /\ Ready
  /\ \E st \in UrlStatusValues, ow \in UrlOwnerValues :
       /\ <<st, ow>> # <<urlStatus, urlOwner>>
       /\ ReadsOwnerParam(ctl) \/ ow = "none"
       /\ urlStatus' = st
       /\ urlOwner' = ow
       /\ statusFilter' =
            CASE ctl = "meetings" ->
                   \* deps [searchParams]: if (urlStatus) setStatusFilter
                   IF st # "none" THEN st ELSE statusFilter
              [] ctl \in {"contacts", "deals"} ->
                   \* deps [sourceParam] / [initialStageFilter]
                   IF st # urlStatus /\ st # "none" THEN st ELSE statusFilter
              [] OTHER ->
                   \* deps [initialStatus]: setStatusFilter(initialStatus)
                   IF st # urlStatus THEN Seeded(st) ELSE statusFilter
       /\ ownerFilter' = IF ReadsOwnerParam(ctl) /\ ow # urlOwner
                         THEN OwnerSynced(ow) ELSE ownerFilter
  /\ pending' = TRUE
  /\ lastEvent' = "navigate"
  /\ UNCHANGED <<collection, filtered, searchTerm, debouncedSearchTerm,
                 timerArmed, sortField, sortDirection, currentPage,
                 itemsPerPage, selected>>
  /\ UNCHANGED <<urlViewId, mounted, storage, filtersSearchTerm>>
  /\ UNCHANGED <<opsVars, fetchVars>>

\* the viewId effect once the rows are loaded and hold the record (row 1):
\* the record is opened and setSearchParams deletes viewId from the URL;
\* in Meetings the status sync effect depends on searchParams and runs
\* again
ViewIdEffect ==
  /\ mounted
  /\ Ready
  /\ OpensViewId(ctl)
  /\ urlViewId
  /\ 1 \in Range(collection)
  /\ urlViewId' = FALSE
  /\ statusFilter' = IF ctl = "meetings" /\ urlStatus # "none"
                     THEN urlStatus ELSE statusFilter
  /\ pending' = (statusFilter' # statusFilter)
  /\ lastEvent' = "viewId"
  /\ UNCHANGED <<collection, filtered, searchTerm, debouncedSearchTerm,
                 timerArmed, sortField, sortDirection, currentPage,
                 itemsPerPage, selected, ownerFilter>>
  /\ UNCHANGED <<urlStatus, urlOwner, mounted, storage, filtersSearchTerm>>
  /\ UNCHANGED <<opsVars, fetchVars>>

\* handleClearAllFilters / clearAllFilters. Meetings and LeadTable also
\* empty the query string; ListView resets filters and searchTerm and
\* leaves leadOwnerFilter
ClearAllFilters ==
  /\ mounted
  /\ Ready
  /\ searchTerm' = <<>>
  /\ statusFilter' = "all"
  /\ filtersSearchTerm' = <<>>
  /\ ownerFilter' = IF ctl = "deals" THEN ownerFilter ELSE "all"
  /\ timerArmed' = IF Debounced(ctl) /\ searchTerm # <<>> THEN TRUE
                                                          ELSE timerArmed
  /\ IF ctl \in {"meetings", "leads"}
     THEN /\ urlStatus' = "none"
          /\ urlOwner' = "none"
          /\ urlViewId' = FALSE
     ELSE UNCHANGED <<urlStatus, urlOwner, urlViewId>>
  /\ pending' = TRUE
  /\ lastEvent' = "clear"
  /\ UNCHANGED <<collection, filtered, debouncedSearchTerm, sortField,
                 sortDirection, currentPage, itemsPerPage, selected>>
  /\ UNCHANGED <<mounted, storage>>
  /\ UNCHANGED <<opsVars, fetchVars>>

\* Meetings.handleClearOwnerFilter: the owner badge is dismissed; when the
\* URL held an owner the query string changes and the status sync effect,
\* which depends on searchParams, runs again
ClearOwnerFilter ==
  /\ mounted
  /\ Ready
  /\ ctl = "meetings"
  /\ ownerFilter # "all"
  /\ urlOwner' = "none"
  /\ ownerFilter' = "all"
  /\ statusFilter' = IF urlOwner # "none" /\ urlStatus # "none"
                     THEN urlStatus ELSE statusFilter
  /\ pending' = TRUE
  /\ lastEvent' = "clearOwner"
  /\ UNCHANGED <<collection, filtered, searchTerm, debouncedSearchTerm,
                 timerArmed, sortField, sortDirection, currentPage,
                 itemsPerPage, selected>>
  /\ UNCHANGED <<urlStatus, urlViewId, mounted, storage, filtersSearchTerm>>
  /\ UNCHANGED <<opsVars, fetchVars>>

\* hasActiveFilters
HasActiveFilters ==
  CASE Debounced(ctl) ->
         debouncedSearchTerm # <<>> \/ statusFilter # "all"
           \/ ownerFilter # "all"
    [] ctl = "deals" ->
         \* getActiveFiltersCount() > 0 || searchTerm !== ""
         statusFilter # "all" \/ filtersSearchTerm # <<>> \/ searchTerm # <<>>
    [] OTHER ->
         searchTerm # <<>> \/ statusFilter # "all" \/ ownerFilter # "all"

\* a list view as its useState initializers build it from the URL, before
\* its mount effects have run
InitUrl ==
  /\ ctl \in Controllers \cup {"tasks"}
  /\ OpsIdle
  /\ FetchIdle
  /\ urlStatus \in UrlStatusValues
  /\ urlOwner \in UrlOwnerValues
  /\ ReadsOwnerParam(ctl) \/ urlOwner = "none"
  /\ urlViewId \in BOOLEAN
  /\ OpensViewId(ctl) \/ urlViewId = FALSE
  /\ mounted = FALSE
  /\ storage \in IF ctl = "deals"
                 THEN {NoStorage} \cup
                      {Stored(st, t) : st \in StatusOptions, t \in SearchInputs}
                 ELSE {NoStorage}
  /\ filtersSearchTerm = <<>>
  /\ collection = <<>>
  /\ filtered = <<>>
  /\ searchTerm = <<>>
  /\ debouncedSearchTerm = <<>>
  /\ timerArmed = FALSE
  /\ statusFilter = Seeded(urlStatus)
  /\ ownerFilter = "all"
  /\ sortField = IF ctl = "deals" THEN "modified_at" ELSE "none"
  /\ sortDirection = IF ctl = "deals" THEN "desc" ELSE "asc"
  /\ currentPage = 1
  /\ itemsPerPage = IF ctl = "meetings" THEN ITEMS_PER_PAGE
                                         ELSE DefaultItemsPerPage
  /\ selected = {}
  /\ pending = TRUE
  /\ lastEvent = "mount"

NextUrl ==
  \/ Mount
  \/ Reload
  \/ Navigate
  \/ ViewIdEffect
  \/ ClearAllFilters
  \/ ClearOwnerFilter
  \/ (mounted /\ FetchResolved)
  \/ (mounted /\ DealsPropChanged)
  \/ (mounted /\ SetSearchTerm)
  \/ (mounted /\ DebounceFires)
  \/ (mounted /\ SetStatusFilter)
  \/ (mounted /\ SetOwnerFilter)
  \/ (mounted /\ RunEffect)

SpecUrl == InitUrl /\ [][NextUrl]_vars

\* ------------------------------------------------------------------------
\* Properties of the URL hand-off (SpecUrl)
\* ------------------------------------------------------------------------

\* C22: the query parameters flow one way and once. After mount, a step
\* caused by the URL (a navigation, the viewId effect) changes neither the
\* status/stage/source filter nor the owner filter, and only a navigation
\* changes the status and owner parameters of the URL: no operation of
\* the controller writes them.
C22_UrlOneWayOnce ==
  [][mounted =>
       /\ lastEvent' \in {"navigate", "viewId"} =>
            /\ statusFilter' = statusFilter
            /\ ownerFilter' = ownerFilter
       /\ lastEvent' # "navigate" =>
            /\ urlStatus' = urlStatus
            /\ urlOwner' = urlOwner]_vars

\* C23: when a view is mounted with a status (stage, source) in the URL,
\* then once its mount effects have run the filter equals that value,
\* whatever local storage held.
C23_MountSeedsFilter ==
  (mounted /\ lastEvent = "mounted" /\ urlStatus # "none")
    => statusFilter = urlStatus

\* ------------------------------------------------------------------------
\* Further properties of the list view (SpecView)
\* ------------------------------------------------------------------------

\* C24: every id in the selection is the id of a row of the loaded
\* collection, after any sequence of selections, fetches and updates of
\* the collection prop.
C24_SelectionWithinCollection == selected \subseteq Range(collection)


\* C25: once the effects of a change have run, the page number lies in
\* 1..max(1, totalPages) and a non-empty filtered list is not shown as an
\* empty page.
C25_PageWithinRange ==
  Ready =>
    /\ 1 <= currentPage
    /\ currentPage <= Max(1, TotalPages)
    /\ Len(FilteredRows) > 0 => Len(PageRows) > 0


\* ------------------------------------------------------------------------
\* Further properties of fetching (SpecFetch)
\* ------------------------------------------------------------------------

\* C26: loading is true in every state in which a fetch of the collection
\* is in flight, overlapping fetches included, and false once a fetch has
\* been issued and none is in flight.
C26_LoadingIffInFlight ==
  /\ inflight # <<>> => loading
  /\ (inflight = <<>> /\ fetches > 0) => ~loading


\* ------------------------------------------------------------------------
\* Properties of clearing and of persisted filters (SpecUrl)
\* ------------------------------------------------------------------------

\* C27: after 'Clear filters', once its effects have run and no debounce
\* timer is armed, the search term and every filter are at their default,
\* hasActiveFilters is false and the filtered rows are all loaded rows.
C27_ClearRestoresAll ==
  (lastEvent = "clear" /\ Ready /\ ~timerArmed) =>
    /\ searchTerm = <<>>
    /\ AppliedTerm = <<>>
    /\ statusFilter = "all"
    /\ ownerFilter = "all"
    /\ ~HasActiveFilters
    /\ Range(FilteredRows) = Range(collection)

\* C28: the filter state of the Deals list round-trips through local
\* storage: mounting the list again over the same deals shows the
\* filtered set shown before (the lead-owner dropdown, which is not
\* persisted, being at 'all').
C28_StorageRoundTrip ==
  [][(lastEvent' = "reload" /\ ownerFilter = "all") =>
       Range(FilteredRows)' = Range(FilteredRows)]_vars


\* ------------------------------------------------------------------------
\* Further properties of the delete handlers (SpecOps)
\* ------------------------------------------------------------------------
SingleDeleteOps == {"meetings.handleDelete", "contacts.handleDelete",
                    "accounts.handleDelete", "leads.handleDelete",
                    "deals.deleteConfirm"}

\* C29: the notification of a single-row delete matches the backend: a
\* success notification only if the delete on the row was issued and the
\* row is gone, an error notification only if every row the handler
\* started with still exists.
C29_NotificationMatchesBackend ==
  (Done /\ op \in SingleDeleteOps /\ toasts # <<>>) =>
    /\ LastToast.title \in {"Success", "Deal deleted"} =>
         /\ DeleteCalls(MainTable) # {}
         /\ \A i \in DeleteCalls(MainTable) : calls[i].ids \cap tblMain = {}
    /\ LastToast.title = "Error" => tblMain = tbl0.main


\* C30: in a lead deletion with deleteLinkedRecords, single or bulk, the
\* delete on leads is issued only after a delete of lead_action_items by
\* lead_id that succeeded; when that delete failed the handler ends with
\* no lead deleted and an error notification.
C30_LeadsOnlyAfterItemsDeleted ==
  (op \in {"leads.handleDelete", "leads.handleBulkDelete"} /\ dlr) =>
    /\ \A k \in DeleteCalls("leads") :
         \E j \in 1..(k - 1) :
           /\ IsDelete(calls[j], "lead_action_items")
           /\ calls[j].col = "lead_id"
           /\ calls[j].ok
    /\ (Done /\ \E j \in DeleteCalls("lead_action_items") : ~calls[j].ok)
         => /\ tblMain = tbl0.main
            /\ Failed

====
